---- MODULE Spec2Model ----
(***************************************************************************)
(* Model of the notebook ProgrammaticDataAccess.ipynb: the rate-limited    *)
(* enrichment pass over de_data["urs_taxid"] (get_rna_data, progress_map,  *)
(* pd.DataFrame), the miRNA selection and the publication lookup           *)
(* (get_publications).                                                     *)
(*                                                                         *)
(* The decorator `limits` is ratelimit.RateLimitDecorator as the notebook  *)
(* applies it: limits(calls=20, period=1) with the default                 *)
(* raise_on_limit=True and without sleep_and_retry.  Its wrapper resets    *)
(* the counter when the period has elapsed since last_reset, counts the    *)
(* attempt, and raises RateLimitException when the count exceeds the       *)
(* clamped number of calls.                                                *)
(*                                                                         *)
(* Time is the monotonic clock in ticks of 1/TicksPerSecond second.        *)
(***************************************************************************)
EXTENDS Integers, Sequences, FiniteSets, TLC

\* ---- program constants ----
calls == 20
period == 1

\* ---- bounds of the model ----
TicksPerSecond == 2
MaxTime == 2
MaxShortLen == 2
MaxExtra == 1
MaxEntries == 2

PeriodTicks == period * TicksPerSecond

\* ---- JSON values, tagged by their Python type ----
StrV(s) == [t |-> "str", v |-> <<s>>]
IntV(n) == [t |-> "int", v |-> <<n>>]
FloatV(n) == [t |-> "float", v |-> <<n>>]
ListV(q) == [t |-> "list", v |-> q]
NaN == [t |-> "nan", v |-> <<>>]

\* ---- the remote enrichment endpoint ----
Ids == {"A", "B"}

RecMiRNA == [rna_type |-> StrV("miRNA"), genes |-> ListV(<<"g1", "g2">>)]
RecLnc == [rna_type |-> StrV("lncRNA"), length |-> IntV(5)]
RecBare == [rna_type |-> StrV("miRNA"), length |-> IntV(7)]
RecNotFound == [detail |-> StrV("Not found.")]
NoBody == [html |-> StrV("<html>")]

\* what one GET can meet: a response (status, body that is JSON or not), or a
\* network error
Replies ==
  { [kind |-> "response", status |-> 200, json |-> TRUE, body |-> RecMiRNA],
    [kind |-> "response", status |-> 200, json |-> TRUE, body |-> RecLnc],
    [kind |-> "response", status |-> 200, json |-> TRUE, body |-> RecBare],
    [kind |-> "response", status |-> 404, json |-> TRUE, body |-> RecNotFound],
    [kind |-> "response", status |-> 500, json |-> FALSE, body |-> NoBody],
    [kind |-> "response", status |-> 200, json |-> FALSE, body |-> NoBody],
    [kind |-> "error", status |-> 0, json |-> FALSE, body |-> NoBody] }

\* a remote call that failed: network error, non-success status or a body
\* that does not decode
Failed(reply) == reply.kind = "error" \/ reply.status # 200 \/ ~reply.json

\* variant: the identifier is not interpolated into the URL
RnaUrl_Fixed(rnacentral_id) == "https://rnacentral.org/api/v1/rna/" \o "A"

RnaUrl(rnacentral_id) == "https://rnacentral.org/api/v1/rna/" \o rnacentral_id

\* the identifier the API serves for a URL of its /rna/ route
ApiRoute(url) == CHOOSE id \in Ids : url = "https://rnacentral.org/api/v1/rna/" \o id

\* variant: each value is collected in front of the earlier ones
MapStep_Prepend(collected, value) == <<value>> \o collected

\* progress_map collects the value of each call behind those of the elements before
MapStep(collected, value) == Append(collected, value)

\* ---- ratelimit.RateLimitDecorator ----
ClampedCalls == IF calls < 1 THEN 1 ELSE calls

NewLimiter(clock) == [last_reset |-> clock, num_calls |-> 0]

PeriodRemaining(lim, clock) == PeriodTicks - (clock - lim.last_reset)

\* the wrapper up to the decision: reset if the period elapsed, count the attempt
Attempt(lim, clock) ==
  LET l1 == IF PeriodRemaining(lim, clock) <= 0 THEN NewLimiter(clock) ELSE lim
  IN [l1 EXCEPT !.num_calls = @ + 1]

Admitted(lim) == lim.num_calls <= ClampedCalls

\* variant: both functions are wrapped by one decorator object
PubLimiter_Shared(rna_lim, clock) == rna_lim

\* @limits(...) on get_publications constructs a decorator of its own; the
\* one on get_rna_data is not involved
PubLimiter(rna_lim, clock) == NewLimiter(clock)

\* ---- pandas.DataFrame(list of dicts) ----
Columns(records) == UNION { DOMAIN records[i] : i \in 1..Len(records) }

\* variant: a field the record lacks is filled with the empty string
Cell_EmptyFill(records, i, c) ==
  IF c \notin DOMAIN records[i] THEN StrV("") ELSE records[i][c]

Cell(records, i, c) ==
  LET missing == \E j \in 1..Len(records) : c \notin DOMAIN records[j]
      numeric == \A j \in 1..Len(records) :
                    c \in DOMAIN records[j] => records[j][c].t \in {"int", "float"}
  IN IF c \notin DOMAIN records[i] THEN NaN
     ELSE IF missing /\ numeric /\ records[i][c].t = "int"
          THEN FloatV(records[i][c].v[1])
          ELSE records[i][c]

DataFrame(records) ==
  [columns |-> Columns(records),
   rows |-> [i \in 1..Len(records) |-> [c \in Columns(records) |-> Cell(records, i, c)]]]

EmptyFrame == [columns |-> {}, rows |-> <<>>]

\* frame.loc[frame[column] == "text"]; the caller has checked the column exists
SelectEq(frame, column, text) ==
  LET keep == { i \in 1..Len(frame.rows) :
                  /\ frame.rows[i][column].t = "str"
                  /\ frame.rows[i][column].v = <<text>> }
      F[i \in 0..Len(frame.rows)] ==
        IF i = 0 THEN <<>>
        ELSE IF i \in keep THEN Append(F[i - 1], frame.rows[i]) ELSE F[i - 1]
  IN [columns |-> frame.columns, rows |-> F[Len(frame.rows)]]

\* ---- the literature search endpoint ----
Entry1 == [fields |-> [title |-> <<"T1">>, pmcid |-> <<"PMC1">>]]
Entry2 == [fields |-> [title |-> <<"T2", "T2b">>, pmcid |-> <<"PMC2">>]]
EntryNoPmcid == [fields |-> [title |-> <<"T3">>]]

Entries == {Entry1, Entry2, EntryNoPmcid}

RECURSIVE Join(_, _)
Join(parts, sep) ==
  IF Len(parts) = 0 THEN ""
  ELSE IF Len(parts) = 1 THEN parts[1]
  ELSE parts[1] \o sep \o Join(Tail(parts), sep)

\* the orders in which a Python set can be iterated
Orders(S) ==
  { q \in [1..Cardinality(S) -> S] : \A x \in S : \E i \in DOMAIN q : q[i] = x }

FormatGeneQuery(order) == [i \in DOMAIN order |-> "job_id:\"" \o order[i] \o "\""]

SearchUrl(order) ==
  "https://www.ebi.ac.uk/ebisearch/ws/rest/rnacentral-litscan?query=entry_type:Publication AND ("
    \o Join(FormatGeneQuery(order), " OR ") \o ")&fields=title,pmcid&format=json"

PmcLink(pmcid) == "https://www.ncbi.nlm.nih.gov/pmc/articles/" \o pmcid \o "/"

Titles(entries) == [i \in 1..Len(entries) |-> entries[i].fields.title[1]]
\* variant: the pmcid list is read from the title field
Pmcids_FromTitle(entries) == [i \in 1..Len(entries) |-> entries[i].fields.title[1]]
Pmcids(entries) == [i \in 1..Len(entries) |-> entries[i].fields.pmcid[1]]
Links(pmcids) == [i \in 1..Len(pmcids) |-> PmcLink(pmcids[i])]

\* pandas.DataFrame({"titles": ..., "pmcids": ..., "links": ...}), lists of one length
PublicationFrame(titles, pmcids, links) ==
  [i \in 1..Len(titles) |-> [titles |-> titles[i], pmcids |-> pmcids[i], links |-> links[i]]]

\* ---- inputs ----
RECURSIVE SeqsUpTo(_, _)
SeqsUpTo(S, n) ==
  IF n = 0 THEN {<<>>}
  ELSE LET shorter == SeqsUpTo(S, n - 1)
       IN shorter \cup { Append(q, x) : q \in { p \in shorter : Len(p) = n - 1 }, x \in S }

Alternating(n) == [i \in 1..n |-> IF i % 2 = 1 THEN "A" ELSE "B"]

ShortInputs == SeqsUpTo(Ids, MaxShortLen)
LongInputs == { Alternating(n) : n \in calls..(calls + MaxExtra) }

AllSucceed == [id \in Ids |-> IF id = "A"
    THEN [kind |-> "response", status |-> 200, json |-> TRUE, body |-> RecMiRNA]
    ELSE [kind |-> "response", status |-> 200, json |-> TRUE, body |-> RecLnc]]

\* what the search endpoint can answer to the one GET of get_publications
SearchReplies ==
  { [kind |-> "response", json |-> TRUE, body |-> [entries |-> es]] :
      es \in SeqsUpTo(Entries, MaxEntries) }
  \cup
  { [kind |-> "response", json |-> TRUE, body |-> [error |-> <<"bad query">>]],
    [kind |-> "response", json |-> FALSE, body |-> [error |-> <<"<html>">>]],
    [kind |-> "error", json |-> FALSE, body |-> [error |-> <<"unreachable">>]] }

VARIABLES
  ids,              \* de_data["urs_taxid"]
  endpoint,         \* what the RNAcentral API answers for each identifier
  now,              \* the monotonic clock
  pc,               \* which cell runs next
  rna_limiter,      \* state of the decorator on get_rna_data
  mapped,           \* values progress_map has collected so far
  rna_gets,         \* URLs requested by get_rna_data, in order
  rna_starts,       \* clock at each start of get_rna_data's body
  r,                \* the mapped Series
  rnacentral_data,  \* pd.DataFrame(list(r))
  miRNA,            \* the rows of rnacentral_data with rna_type "miRNA"
  pub_limiter,      \* state of the decorator on get_publications
  pub_gets,         \* URLs requested by get_publications
  search_response,  \* what the search endpoint answered
  publication_data, \* the table get_publications returned
  exc               \* the exception that ended a cell, if any

vars == <<ids, endpoint, now, pc, rna_limiter, mapped, rna_gets, rna_starts,
          r, rnacentral_data, miRNA, pub_limiter, pub_gets, search_response,
          publication_data, exc>>

enrichment == <<rna_limiter, mapped, rna_gets, rna_starts, r, rnacentral_data>>
publication == <<pub_limiter, pub_gets, search_response, publication_data>>

NoExc == [cell |-> "none", type |-> "none"]
NoResponse == [kind |-> "none", json |-> FALSE, body |-> [error |-> <<"none">>]]

Raise(cell, type) ==
  /\ pc' = "raised"
  /\ exc' = [cell |-> cell, type |-> type]

Init ==
  /\ \/ ids \in ShortInputs /\ endpoint \in [Ids -> Replies]
     \/ ids \in LongInputs /\ endpoint = AllSucceed
  /\ now = 0
  /\ pc = "start"
  /\ rna_limiter = NewLimiter(0)
  /\ mapped = <<>>
  /\ rna_gets = <<>>
  /\ rna_starts = <<>>
  /\ r = <<>>
  /\ rnacentral_data = EmptyFrame
  /\ miRNA = EmptyFrame
  /\ pub_limiter = NewLimiter(0)
  /\ pub_gets = <<>>
  /\ search_response = NoResponse
  /\ publication_data = <<>>
  /\ exc = NoExc

\* the clock advances (request latency, time between statements) until the
\* last cell has ended
Tick ==
  /\ pc \notin {"published", "raised"}
  /\ now < MaxTime
  /\ now' = now + 1
  /\ UNCHANGED <<ids, endpoint, pc, enrichment, miRNA, publication, exc>>

\* the enrichment cell starts: the decorator is constructed; an empty column
\* maps to an empty Series and an empty table at once
DefineGetRnaData ==
  /\ pc = "start"
  /\ rna_limiter' = NewLimiter(now)
  /\ IF Len(ids) = 0
     THEN /\ pc' = "done"
          /\ r' = <<>>
          /\ rnacentral_data' = DataFrame(<<>>)
     ELSE /\ pc' = "map"
          /\ UNCHANGED <<r, rnacentral_data>>
  /\ UNCHANGED <<ids, endpoint, now, mapped, rna_gets, rna_starts, miRNA,
                 publication, exc>>

\* progress_map calls get_rna_data on the next element; after the last
\* element the Series is assigned and the table is built
CallGetRnaData ==
  /\ pc = "map"
  /\ LET i == Len(mapped) + 1
         lim == Attempt(rna_limiter, now)
         url == RnaUrl(ids[i])
         reply == endpoint[ApiRoute(url)]
     IN /\ rna_limiter' = lim
        /\ IF ~Admitted(lim)
           THEN /\ Raise("get_rna_data", "RateLimitException")
                /\ UNCHANGED <<mapped, rna_gets, rna_starts, r, rnacentral_data>>
           ELSE /\ rna_gets' = Append(rna_gets, url)
                /\ rna_starts' = Append(rna_starts, now)
                /\ IF reply.kind = "error"
                   THEN /\ Raise("get_rna_data", "ConnectionError")
                        /\ UNCHANGED <<mapped, r, rnacentral_data>>
                   ELSE IF ~reply.json
                   THEN /\ Raise("get_rna_data", "JSONDecodeError")
                        /\ UNCHANGED <<mapped, r, rnacentral_data>>
                   ELSE /\ mapped' = MapStep(mapped, reply.body)
                        /\ exc' = exc
                        /\ IF i = Len(ids)
                           THEN /\ pc' = "done"
                                /\ r' = mapped'
                                /\ rnacentral_data' = DataFrame(mapped')
                           ELSE /\ pc' = "map"
                                /\ UNCHANGED <<r, rnacentral_data>>
  /\ UNCHANGED <<ids, endpoint, now, miRNA, publication>>

\* miRNA = rnacentral_data.loc[rnacentral_data["rna_type"] == "miRNA"]
SelectMiRNA ==
  /\ pc = "done"
  /\ IF "rna_type" \notin rnacentral_data.columns
     THEN /\ Raise("miRNA", "KeyError")
          /\ UNCHANGED miRNA
     ELSE /\ miRNA' = SelectEq(rnacentral_data, "rna_type", "miRNA")
          /\ pc' = "selected"
          /\ exc' = exc
  /\ UNCHANGED <<ids, endpoint, now, enrichment, publication>>

\* the body of get_publications once the limiter admitted the call
GetPublications(order, reply) ==
  /\ pub_gets' = Append(pub_gets, SearchUrl(order))
  /\ search_response' = reply
  /\ IF reply.kind = "error"
     THEN /\ Raise("get_publications", "ConnectionError")
          /\ UNCHANGED publication_data
     ELSE IF ~reply.json
     THEN /\ Raise("get_publications", "JSONDecodeError")
          /\ UNCHANGED publication_data
     ELSE IF \/ "entries" \notin DOMAIN reply.body
             \/ \E k \in 1..Len(reply.body.entries) :
                   {"title", "pmcid"} \ DOMAIN reply.body.entries[k].fields # {}
     THEN /\ Raise("get_publications", "KeyError")
          /\ UNCHANGED publication_data
     ELSE LET titles == Titles(reply.body.entries)
              pmcids == Pmcids(reply.body.entries)
              links == Links(pmcids)
          IN /\ publication_data' = PublicationFrame(titles, pmcids, links)
             /\ pc' = "published"
             /\ exc' = exc

\* the publication cell: the decorator is constructed, the gene set is taken
\* from the first miRNA row, get_publications is called once
PublicationCell ==
  /\ pc = "selected"
  /\ IF "genes" \notin miRNA.columns
     THEN /\ Raise("publication_data", "KeyError")
          /\ pub_limiter' = NewLimiter(now)
          /\ UNCHANGED <<pub_gets, search_response, publication_data>>
     ELSE IF Len(miRNA.rows) = 0
     THEN /\ Raise("publication_data", "IndexError")
          /\ pub_limiter' = NewLimiter(now)
          /\ UNCHANGED <<pub_gets, search_response, publication_data>>
     ELSE IF miRNA.rows[1]["genes"].t # "list"
     THEN /\ Raise("publication_data", "TypeError")
          /\ pub_limiter' = NewLimiter(now)
          /\ UNCHANGED <<pub_gets, search_response, publication_data>>
     ELSE LET genes == { miRNA.rows[1]["genes"].v[k] :
                           k \in 1..Len(miRNA.rows[1]["genes"].v) }
              lim == Attempt(PubLimiter(rna_limiter, now), now)
          IN /\ pub_limiter' = lim
             /\ IF ~Admitted(lim)
                THEN /\ Raise("get_publications", "RateLimitException")
                     /\ UNCHANGED <<pub_gets, search_response, publication_data>>
                ELSE \E order \in Orders(genes), reply \in SearchReplies :
                       GetPublications(order, reply)
  /\ UNCHANGED <<ids, endpoint, now, enrichment, miRNA>>

Next ==
  \/ Tick
  \/ DefineGetRnaData
  \/ CallGetRnaData
  \/ SelectMiRNA
  \/ PublicationCell

Spec == Init /\ [][Next]_vars

\* ---- properties ----

\* the enrichment cell returned: r and rnacentral_data are assigned
EnrichmentReturned ==
  \/ pc \in {"done", "selected", "published"}
  \/ pc = "raised" /\ exc.cell # "get_rna_data"

\* the enrichment cell has ended, by returning or by an exception
EnrichmentEnded == pc \notin {"start", "map"}

\* one GET per identifier was issued and every one of them succeeded
AllCallsSucceeded ==
  /\ Len(rna_gets) = Len(ids)
  /\ \A i \in 1..Len(ids) : ~Failed(endpoint[ids[i]])

\* number of get_rna_data bodies started in the trailing interval (t - period, t]
StartsWithin(t) ==
  Cardinality({ k \in 1..Len(rna_starts) :
                  rna_starts[k] > t - PeriodTicks /\ rna_starts[k] <= t })

\* C1: at every time t up to now, at most `calls` invocations of get_rna_data
\* started in the trailing interval (t - period, t].
C1_RollingWindow == \A t \in 0..now : StartsWithin(t) <= calls

\* C2: no call is rejected or skipped because of the rate ceiling: when the
\* enrichment pass has ended without a failure of a remote call, every
\* identifier of the input has been called.
C2_EveryIdentifierCalled ==
  (EnrichmentEnded /\ ~(exc.cell = "get_rna_data"
                         /\ exc.type \in {"ConnectionError", "JSONDecodeError"}))
    => Len(rna_gets) = Len(ids)

\* C3: when every identifier's remote call succeeded the pass returns, and what
\* it returns has one record per identifier, record i being the one the
\* endpoint answered for ids[i], in the Series and in the table alike.
C3_SameLengthSameOrder ==
  /\ (AllCallsSucceeded /\ pc # "start") => EnrichmentReturned
  /\ EnrichmentReturned =>
       /\ Len(r) = Len(ids)
       /\ Len(rnacentral_data.rows) = Len(ids)
       /\ \A i \in 1..Len(ids) :
            /\ r[i] = endpoint[ids[i]].body
            /\ \A c \in DOMAIN r[i] : rnacentral_data.rows[i][c].t # "nan"

C3_Witness ==
  /\ EnrichmentReturned
  /\ AllCallsSucceeded
  /\ Len(ids) = 2
  /\ r[1] # r[2]

\* C4: no call of get_rna_data or get_publications ends in an error raised
\* by the limiter.
C4_LimiterNeverFails == exc.type # "RateLimitException"

\* C5: no record is collected for an identifier whose remote call failed.
C5_FailurePropagates ==
  \A i \in 1..Len(mapped) : ~Failed(endpoint[ids[i]])

\* C6: the GETs issued are, in input order, the endpoint template with the
\* identifier of each element, duplicates included; a pass that returned has
\* issued exactly one GET per element.
C6_OneGetPerElement ==
  /\ Len(rna_gets) <= Len(ids)
  /\ \A k \in 1..Len(rna_gets) :
       rna_gets[k] = "https://rnacentral.org/api/v1/rna/" \o ids[k]
  /\ EnrichmentReturned => Len(rna_gets) = Len(ids)

C6_Witness ==
  /\ EnrichmentReturned
  /\ Len(ids) = 2
  /\ ids[1] = ids[2]
  /\ Len(rna_gets) = 2

C8_PublicationRecords ==
  pc = "published" =>
    LET entries == search_response.body.entries
    IN /\ Len(publication_data) = Len(entries)
       /\ \A i \in 1..Len(entries) :
            /\ publication_data[i].titles = Head(entries[i].fields.title)
            /\ publication_data[i].pmcids = Head(entries[i].fields.pmcid)
            /\ publication_data[i].links =
                 "https://www.ncbi.nlm.nih.gov/pmc/articles/"
                   \o Head(entries[i].fields.pmcid) \o "/"

C8_Witness ==
  /\ pc = "published"
  /\ Len(publication_data) = 2
  /\ publication_data[1].pmcids # publication_data[2].pmcids
  /\ Len(search_response.body.entries[2].fields.title) = 2

\* C10: a step that changes one function's limiter leaves the other's
\* alone, and the call of get_publications is the first of its own window:
\* it is counted as 1 and is not rejected, whatever get_rna_data's count is.
C10_SeparateLimiters ==
  [][ /\ (rna_limiter' # rna_limiter => pub_limiter' = pub_limiter)
      /\ (pub_limiter' # pub_limiter => rna_limiter' = rna_limiter)
      /\ (pub_limiter'.num_calls # pub_limiter.num_calls =>
            /\ pub_limiter'.num_calls = 1
            /\ exc'.type # "RateLimitException") ]_vars

C10_Witness ==
  /\ Len(pub_gets) = 1
  /\ pub_limiter.num_calls = 1
  /\ rna_limiter.num_calls = calls
  /\ PeriodRemaining(rna_limiter, now) > 0

====
